---- MODULE Spec2Model ----
(***************************************************************************)
(* Model of backend/python/sentiment_analyzer.py: the command-line entry   *)
(* point main() and the contextual sentiment pipeline analyze_sentiment()  *)
(* with detect_sarcasm() and adjust_for_mental_health().                   *)
(*                                                                         *)
(* Strings are sequences of code points, each code point a one-element     *)
(* string ("a", " ", or "U+0178" for a non-ASCII code point).  Scores are   *)
(* decimal fixed-point integers: one unit is 10^-7, so that every score of *)
(* up to six decimals and its product with 0.7 is represented exactly.     *)
(* Binary floating-point representation error (below 10^-15) is not        *)
(* modelled.                                                               *)
(***************************************************************************)
EXTENDS Integers, Sequences, FiniteSets, TLC

VARIABLES argv, installed, pc, text, scores, compound, label, emoji,
          sentiment, exc, stdout, exit_code

vars == <<argv, installed, pc, text, scores, compound, label, emoji,
          sentiment, exc, stdout, exit_code>>

\* ------------------------------------------------------------ fixed point
Scale == 10 ^ 7
Tenth == Scale \div 10
Milli == Scale \div 1000
Micro == Scale \div 1000000

\* Largest number of fragments concatenated into the text argument.
MaxFrags == 2

\* Value of a local variable that has not been assigned yet.
None == "None"

\* ------------------------------------------------------------------ data
MENTAL_HEALTH_KEYWORDS ==
    << [keyword |-> <<"d", "e", "p", "r", "e", "s", "s", "e", "d">>, weight |-> -3 * Tenth],
       [keyword |-> <<"s", "u", "i", "c", "i", "d", "a", "l">>, weight |-> -5 * Tenth],
       [keyword |-> <<"h", "o", "p", "e", "l", "e", "s", "s">>, weight |-> -3 * Tenth],
       [keyword |-> <<"w", "o", "r", "t", "h", "l", "e", "s", "s">>, weight |-> -3 * Tenth],
       [keyword |-> <<"p", "a", "n", "i", "c">>, weight |-> -2 * Tenth],
       [keyword |-> <<"a", "n", "x", "i", "e", "t", "y">>, weight |-> -2 * Tenth],
       [keyword |-> <<"a", "n", "x", "i", "o", "u", "s">>, weight |-> -2 * Tenth],
       [keyword |-> <<"o", "v", "e", "r", "w", "h", "e", "l", "m", "e", "d">>, weight |-> -2 * Tenth],
       [keyword |-> <<"b", "u", "r", "n", "o", "u", "t">>, weight |-> -3 * Tenth],
       [keyword |-> <<"e", "x", "h", "a", "u", "s", "t", "e", "d">>, weight |-> -2 * Tenth],
       [keyword |-> <<"i", "s", "o", "l", "a", "t", "e", "d">>, weight |-> -2 * Tenth],
       [keyword |-> <<"l", "o", "n", "e", "l", "y">>, weight |-> -2 * Tenth],
       [keyword |-> <<"n", "u", "m", "b">>, weight |-> -2 * Tenth],
       [keyword |-> <<"e", "m", "p", "t", "y">>, weight |-> -2 * Tenth],
       [keyword |-> <<"h", "o", "p", "e", "f", "u", "l">>, weight |-> 2 * Tenth],
       [keyword |-> <<"g", "r", "a", "t", "e", "f", "u", "l">>, weight |-> 2 * Tenth],
       [keyword |-> <<"a", "c", "c", "o", "m", "p", "l", "i", "s", "h", "e", "d">>, weight |-> 2 * Tenth],
       [keyword |-> <<"p", "e", "a", "c", "e", "f", "u", "l">>, weight |-> 2 * Tenth],
       [keyword |-> <<"c", "a", "l", "m">>, weight |-> 2 * Tenth],
       [keyword |-> <<"r", "e", "l", "a", "x", "e", "d">>, weight |-> 2 * Tenth],
       [keyword |-> <<"c", "o", "n", "f", "i", "d", "e", "n", "t">>, weight |-> 2 * Tenth],
       [keyword |-> <<"p", "r", "o", "u", "d">>, weight |-> 2 * Tenth] >>

SARCASM_INDICATORS ==
    << <<"y", "e", "a", "h", " ", "r", "i", "g", "h", "t">>,
       <<"o", "h", " ", "g", "r", "e", "a", "t">>,
       <<"j", "u", "s", "t", " ", "w", "h", "a", "t", " ", "i", " ", "n", "e", "e", "d", "e", "d">>,
       <<"p", "e", "r", "f", "e", "c", "t">>,
       <<"w", "o", "n", "d", "e", "r", "f", "u", "l">>,
       <<"f", "a", "n", "t", "a", "s", "t", "i", "c">>,
       <<"b", "r", "i", "l", "l", "i", "a", "n", "t">>,
       <<"a", "m", "a", "z", "i", "n", "g">> >>

\* The list without the tokens that occur inside an indicator phrase; C10
\* does not hold of it.
negative_context_disjoint ==
    << <<"a", "n", "o", "t", "h", "e", "r">>,
       <<"s", "u", "r", "e">> >>

negative_context ==
    << <<"a", "n", "o", "t", "h", "e", "r">>,
       <<"j", "u", "s", "t">>,
       <<"o", "h">>,
       <<"y", "e", "a", "h">>,
       <<"s", "u", "r", "e">> >>

\* The five literals of the list as the source file holds them: each is a
\* string of four code points (the UTF-8 bytes of an emoji read as
\* Windows-1252), not the single emoji code point.
sarcasm_emojis ==
    << <<"U+00F0", "U+0178", "U+2122", "U+201E">>,
       <<"U+00F0", "U+0178", "U+02DC", "U+2019">>,
       <<"U+00F0", "U+0178", "U+00A4", "U+00A6">>,
       <<"U+00F0", "U+0178", "U+00A4", "U+00B7">>,
       <<"U+00F0", "U+0178", "U+02DC", "U+2018">> >>

EMOJI_POSITIVE == <<"U+00F0", "U+0178", "U+02DC", "U+0160">>
EMOJI_NEGATIVE == <<"U+00F0", "U+0178", "U+02DC", "U+201D">>
EMOJI_NEUTRAL == <<"U+00F0", "U+0178", "U+02DC">>

\* --------------------------------------------------------------- strings
UpperCase ==
    <<"A", "B", "C", "D", "E", "F", "G", "H", "I", "J", "K", "L", "M", "N", "O",
      "P", "Q", "R", "S", "T", "U", "V", "W", "X", "Y", "Z", "U+0178", "U+0160">>

LowerCase ==
    <<"a", "b", "c", "d", "e", "f", "g", "h", "i", "j", "k", "l", "m", "n", "o",
      "p", "q", "r", "s", "t", "u", "v", "w", "x", "y", "z", "U+00FF", "U+0161">>

WhiteSpace == {" ", "\t", "\n"}

\* str.lower() of one code point.
LowerChar(c) ==
    IF \E k \in 1..Len(UpperCase) : UpperCase[k] = c
    THEN LowerCase[CHOOSE k \in 1..Len(UpperCase) : UpperCase[k] = c]
    ELSE c

\* str.lower()
lower(t) == [i \in 1..Len(t) |-> LowerChar(t[i])]

\* `p in t` for strings: p occurs in t as a contiguous substring.
Contains(p, t) ==
    \E i \in 0..(Len(t) - Len(p)) : \A j \in 1..Len(p) : t[i + j] = p[j]

\* str.strip(): leading and trailing white space removed.
strip(t) ==
    LET keep == {i \in 1..Len(t) : t[i] \notin WhiteSpace}
    IN  IF keep = {} THEN <<>>
        ELSE LET first == CHOOSE i \in keep : \A k \in keep : i <= k
                 last == CHOOSE i \in keep : \A k \in keep : i >= k
             IN  SubSeq(t, first, last)

\* --------------------------------------------------------------- numbers
Abs(x) == IF x < 0 THEN -x ELSE x
Min(a, b) == IF a < b THEN a ELSE b
Max(a, b) == IF a > b THEN a ELSE b

\* A rounding that cuts the digits after the third decimal (towards minus
\* infinity); C6 does not hold of it.
Round3Floor(x) == {(x \div Milli) * Milli}

\* round(x, 3): the values it can return, the nearest multiple of 0.001.
\* Python rounds the binary float, which is never exactly halfway between
\* two multiples of 0.001 unless it is a multiple of 0.0005 exactly
\* representable in binary; for a decimal that ends in ...5 the float lies
\* just above or just below it (round(0.0495, 3) = 0.05 but
\* round(-0.0505, 3) = -0.051), so on a decimal tie either neighbour is a
\* possible result.
Round3(x) ==
    LET q == x \div Milli
        r == x % Milli
    IN  IF 2 * r < Milli THEN {q * Milli}
        ELSE IF 2 * r > Milli THEN {(q + 1) * Milli}
        ELSE {q * Milli, (q + 1) * Milli}

\* A flip that keeps the full magnitude; C2 does not hold of it.
FlipAndDampenUndamped(c) == -Abs(c)

\* -abs(compound) * 0.7 (exact for scores of at most six decimals)

FlipAndDampen(c) == -((Abs(c) * 7) \div 10)

\* ---------------------------------------------------------------- inputs
\* Pieces the text argument is put together from: indicator phrases (one in
\* mixed case), a single-word indicator, a context token, an emoji literal of
\* the list, the emoji U+1F644 as one code point, domain keywords and a blank.
Fragments ==
    { <<"o", "h", " ", "g", "r", "e", "a", "t">>,
      <<"Y", "e", "a", "h", " ", "R", "i", "g", "h", "t">>,
      <<"j", "u", "s", "t", " ", "w", "h", "a", "t", " ", "i", " ", "n", "e", "e", "d", "e", "d">>,
      <<"p", "e", "r", "f", "e", "c", "t">>,
      <<" ", "s", "u", "r", "e">>,
      <<"U+00F0", "U+0178", "U+2122", "U+201E">>,
      <<"U+1F644">>,
      <<"h", "o", "p", "e", "l", "e", "s", "s">>,
      <<"e", "m", "p", "t", "y">>,
      <<"c", "a", "l", "m">>,
      <<"p", "e", "a", "c", "e", "f", "u", "l">>,
      <<" ">> }

RECURSIVE TextsOf(_)
TextsOf(n) ==
    IF n = 0 THEN {<<>>}
    ELSE LET shorter == TextsOf(n - 1)
         IN  shorter \cup {p \o f : p \in shorter, f \in Fragments}

Texts == TextsOf(MaxFrags)

\* sys.argv: the script name, then the arguments given.
Argvs ==
    {<<"sentiment_analyzer.py">>} \cup {<<"sentiment_analyzer.py", t>> : t \in Texts}

Polarity(p, n, g, c) == [pos |-> p, neu |-> n, neg |-> g, compound |-> c]

\* What polarity_scores may return: ratios in [0, 1] and a compound in
\* [-1, 1], here the thresholds, their neighbours, ties of the rounding and
\* both ends of the range.
RawPolarities ==
    { Polarity(0, 0, 1000000 * Micro, -1000000 * Micro),
      Polarity(0, 400000 * Micro, 600000 * Micro, -600000 * Micro),
      Polarity(0, 949500 * Micro, 50500 * Micro, -50500 * Micro),
      Polarity(0, 950000 * Micro, 50000 * Micro, -50001 * Micro),
      Polarity(0, 950000 * Micro, 50000 * Micro, -50000 * Micro),
      Polarity(0, 1000000 * Micro, 0, 0),
      Polarity(400 * Micro, 999600 * Micro, 0, 400 * Micro),
      Polarity(50000 * Micro, 950000 * Micro, 0, 49999 * Micro),
      Polarity(49600 * Micro, 950400 * Micro, 0, 49600 * Micro),
      Polarity(50000 * Micro, 950000 * Micro, 0, 50000 * Micro),
      Polarity(350000 * Micro, 650000 * Micro, 0, 350000 * Micro),
      Polarity(600000 * Micro, 400000 * Micro, 0, 600000 * Micro),
      Polarity(1000000 * Micro, 0, 0, 1000000 * Micro) }

\* ------------------------------------------------------- detect_sarcasm
\* any(word in text_lower for word in negative_context)
AnyContextWord(text_lower) ==
    \E w \in 1..Len(negative_context) : Contains(negative_context[w], text_lower)

\* The loop over SARCASM_INDICATORS from its k-th entry on: TRUE when the
\* loop returns True, FALSE when it runs to its end.
RECURSIVE IndicatorLoop(_, _)
IndicatorLoop(k, text_lower) ==
    IF k > Len(SARCASM_INDICATORS) THEN FALSE
    ELSE IF Contains(SARCASM_INDICATORS[k], text_lower) /\ AnyContextWord(text_lower)
         THEN TRUE
         ELSE IndicatorLoop(k + 1, text_lower)

\* any(emoji in text for emoji in sarcasm_emojis)
AnyEmoji(t) ==
    \E e \in 1..Len(sarcasm_emojis) : Contains(sarcasm_emojis[e], t)

\* A detector that asks for no context word; C7 does not hold of it.
detect_sarcasm_no_context(t) ==
    \/ \E k \in 1..Len(SARCASM_INDICATORS) : Contains(SARCASM_INDICATORS[k], lower(t))
    \/ AnyEmoji(t)

detect_sarcasm(t) ==
    IF IndicatorLoop(1, lower(t)) THEN TRUE
    ELSE IF AnyEmoji(t) THEN TRUE
    ELSE FALSE

\* --------------------------------------------- adjust_for_mental_health
\* The loop over MENTAL_HEALTH_KEYWORDS.items() from its k-th entry on,
\* with the adjustment accumulated so far.
RECURSIVE KeywordLoop(_, _, _)
KeywordLoop(k, text_lower, adjustment) ==
    IF k > Len(MENTAL_HEALTH_KEYWORDS) THEN adjustment
    ELSE IF Contains(MENTAL_HEALTH_KEYWORDS[k].keyword, text_lower)
         THEN KeywordLoop(k + 1, text_lower,
                          adjustment + MENTAL_HEALTH_KEYWORDS[k].weight)
         ELSE KeywordLoop(k + 1, text_lower, adjustment)

\* An adjuster that counts every occurrence of a keyword (adjust_by_frequency,
\* with its loop and the number of places where p occurs in t); C3 does not
\* hold of it.
Occurrences(p, t) ==
    Cardinality({i \in 0..(Len(t) - Len(p)) : \A j \in 1..Len(p) : t[i + j] = p[j]})

RECURSIVE FrequencyLoop(_, _, _)
FrequencyLoop(k, text_lower, adjustment) ==
    IF k > Len(MENTAL_HEALTH_KEYWORDS) THEN adjustment
    ELSE FrequencyLoop(k + 1, text_lower,
                       adjustment + Occurrences(MENTAL_HEALTH_KEYWORDS[k].keyword, text_lower)
                                    * MENTAL_HEALTH_KEYWORDS[k].weight)

adjust_by_frequency(t, base_compound) ==
    base_compound + Max(-3 * Tenth, Min(3 * Tenth, FrequencyLoop(1, lower(t), 0)))

adjust_for_mental_health(t, base_compound) ==
    LET adjustment == KeywordLoop(1, lower(t), 0)
    IN  base_compound + Max(-3 * Tenth, Min(3 * Tenth, adjustment))

\* ---------------------------------------------------- analyze_sentiment
\* No clamping; C5 does not hold of it.
NoClamp(c) == c

\* max(-1.0, min(1.0, compound))
ClampCompound(c) == Max(-Scale, Min(Scale, c))

\* Labels by the sign alone, and labels with strict comparisons; C9 (as
\* amended) does not hold of the first, C4 not of the second.
LabelOfLoose(c) ==
    IF c > 0 THEN "Positive"
    ELSE IF c < 0 THEN "Negative"
    ELSE "Neutral"

LabelOfStrict(c) ==
    IF c > 50000 * Micro THEN "Positive"
    ELSE IF c < -(50000 * Micro) THEN "Negative"
    ELSE "Neutral"

\* The label of a compound score.
LabelOf(c) ==
    IF c >= 50000 * Micro THEN "Positive"
    ELSE IF c <= -(50000 * Micro) THEN "Negative"
    ELSE "Neutral"

\* The emoji assigned together with a label.
EmojiOf(l) ==
    CASE l = "Positive" -> EMOJI_POSITIVE
      [] l = "Negative" -> EMOJI_NEGATIVE
      [] l = "Neutral" -> EMOJI_NEUTRAL

\* A branch taken on sarcasm alone; C8 does not hold of it.
FlipsAlways(sarcasm, c) == sarcasm

\* Whether the sarcasm branch is taken: detect_sarcasm(text) and compound > 0

Flips(sarcasm, c) == sarcasm /\ c > 0

\* A check without the strip(); C1 does not hold of it.
IsEmptyOnly(t) == t = <<>>

\* not text or len(text.strip()) == 0

IsBlank(t) == t = <<>> \/ Len(strip(t)) = 0

\* ------------------------------------------------------------- the run
ResultFields == {"positive", "neutral", "negative", "compound", "label", "emoji", "adjustments"}

Init ==
    /\ argv \in Argvs
    /\ installed \in BOOLEAN
    /\ pc = "import"
    /\ text = None
    /\ scores = None
    /\ compound = None
    /\ label = None
    /\ emoji = None
    /\ sentiment = None
    /\ exc = None
    /\ stdout = <<>>
    /\ exit_code = None

\* print(json.dumps(obj)); sys.exit(code)
EmitAndExit(obj, code) ==
    /\ stdout' = Append(stdout, obj)
    /\ exit_code' = code
    /\ pc' = "exited"

\* The import guard at module level.
ImportGuard ==
    /\ pc = "import"
    /\ IF installed
       THEN /\ pc' = "main"
            /\ UNCHANGED <<stdout, exit_code>>
       ELSE EmitAndExit([error |-> "vaderSentiment not installed. Run: pip install vaderSentiment"], 1)
    /\ UNCHANGED <<argv, installed, text, scores, compound, label, emoji, sentiment, exc>>

\* main(): the argument count, then text = sys.argv[1].
CheckArgv ==
    /\ pc = "main"
    /\ IF Len(argv) < 2
       THEN /\ EmitAndExit([error |-> "No text provided for analysis"], 1)
            /\ UNCHANGED text
       ELSE /\ text' = argv[2]
            /\ pc' = "check_empty"
            /\ UNCHANGED <<stdout, exit_code>>
    /\ UNCHANGED <<argv, installed, scores, compound, label, emoji, sentiment, exc>>

\* main(): the empty-text check.
CheckEmpty ==
    /\ pc = "check_empty"
    /\ IF IsBlank(text)
       THEN EmitAndExit([error |-> "Empty text provided"], 1)
       ELSE /\ pc' = "polarity_scores"
            /\ UNCHANGED <<stdout, exit_code>>
    /\ UNCHANGED <<argv, installed, text, scores, compound, label, emoji, sentiment, exc>>

\* analyze_sentiment(): the scorer is built and called; it returns the raw
\* scores or raises, and compound = scores['compound'].
PolarityScores ==
    /\ pc = "polarity_scores"
    /\ \/ \E raw \in RawPolarities :
            /\ scores' = raw
            /\ compound' = raw.compound
            /\ pc' = "sarcasm"
            /\ UNCHANGED exc
       \/ /\ exc' = "scorer failed"
          /\ pc' = "except"
          /\ UNCHANGED <<scores, compound>>
    /\ UNCHANGED <<argv, installed, text, label, emoji, sentiment, stdout, exit_code>>

\* if detect_sarcasm(text) and compound > 0: compound = -abs(compound) * 0.7
SarcasmStep ==
    /\ pc = "sarcasm"
    /\ compound' = IF Flips(detect_sarcasm(text), compound)
                   THEN FlipAndDampen(compound)
                   ELSE compound
    /\ pc' = "adjust"
    /\ UNCHANGED <<argv, installed, text, scores, label, emoji, sentiment, exc, stdout, exit_code>>

\* compound = adjust_for_mental_health(text, compound)
AdjustStep ==
    /\ pc = "adjust"
    /\ compound' = adjust_for_mental_health(text, compound)
    /\ pc' = "clamp"
    /\ UNCHANGED <<argv, installed, text, scores, label, emoji, sentiment, exc, stdout, exit_code>>

\* compound = max(-1.0, min(1.0, compound))
ClampStep ==
    /\ pc = "clamp"
    /\ compound' = ClampCompound(compound)
    /\ pc' = "classify"
    /\ UNCHANGED <<argv, installed, text, scores, label, emoji, sentiment, exc, stdout, exit_code>>

\* The label and the emoji of the adjusted compound.
Classify ==
    /\ pc = "classify"
    /\ label' = LabelOf(compound)
    /\ emoji' = EmojiOf(LabelOf(compound))
    /\ pc' = "result"
    /\ UNCHANGED <<argv, installed, text, scores, compound, sentiment, exc, stdout, exit_code>>

\* The result dictionary, returned to main().
BuildResult ==
    /\ pc = "result"
    /\ \E p \in Round3(scores.pos), n \in Round3(scores.neu),
          g \in Round3(scores.neg), c \in Round3(compound) :
            sentiment' = [positive |-> p,
                          neutral |-> n,
                          negative |-> g,
                          compound |-> c,
                          label |-> label,
                          emoji |-> emoji,
                          adjustments |-> [sarcasm_detected |-> detect_sarcasm(text),
                                           mental_health_context |-> TRUE]]
    /\ pc' = "print"
    /\ UNCHANGED <<argv, installed, text, scores, compound, label, emoji, exc, stdout, exit_code>>

\* print(json.dumps(sentiment)); sys.exit(0)
EmitResult ==
    /\ pc = "print"
    /\ EmitAndExit(sentiment, 0)
    /\ UNCHANGED <<argv, installed, text, scores, compound, label, emoji, sentiment, exc>>

\* except Exception as e: the error object, sys.exit(1)
ExceptHandler ==
    /\ pc = "except"
    /\ EmitAndExit([error |-> "Analysis failed: " \o exc], 1)
    /\ UNCHANGED <<argv, installed, text, scores, compound, label, emoji, sentiment, exc>>

Next ==
    \/ ImportGuard
    \/ CheckArgv
    \/ CheckEmpty
    \/ PolarityScores
    \/ SarcasmStep
    \/ AdjustStep
    \/ ClampStep
    \/ Classify
    \/ BuildResult
    \/ EmitResult
    \/ ExceptHandler

Spec == Init /\ [][Next]_vars

\* ------------------------------------------------------------ properties
Succeeded == pc = "exited" /\ exit_code = 0
Threshold == 50000 * Micro

AllWhiteSpace(t) == \A i \in 1..Len(t) : t[i] \in WhiteSpace

\* The indicator phrases, context tokens and emoji literals present in t.
PhrasesIn(t) == {k \in 1..Len(SARCASM_INDICATORS) : Contains(SARCASM_INDICATORS[k], lower(t))}
HasContextToken(t) == \E w \in 1..Len(negative_context) : Contains(negative_context[w], lower(t))
HasIndicatorEmoji(t) == \E e \in 1..Len(sarcasm_emojis) : Contains(sarcasm_emojis[e], t)

\* The table entries whose term occurs in the lower-cased t, and their sum.
MatchedTerms(t) ==
    {k \in 1..Len(MENTAL_HEALTH_KEYWORDS) : Contains(MENTAL_HEALTH_KEYWORDS[k].keyword, lower(t))}

RECURSIVE SumOfWeights(_)
SumOfWeights(S) ==
    IF S = {} THEN 0
    ELSE LET k == CHOOSE x \in S : TRUE
         IN  MENTAL_HEALTH_KEYWORDS[k].weight + SumOfWeights(S \ {k})

Clamp(x, lo, hi) == IF x < lo THEN lo ELSE IF x > hi THEN hi ELSE x

DomainAdjustment(t) == Clamp(SumOfWeights(MatchedTerms(t)), -3 * Tenth, 3 * Tenth)

\* r is x rounded to 3 decimals: a multiple of 0.001 at most 0.0005 from x.
IsRounded3(r, x) == r % Milli = 0 /\ 2 * Abs(r - x) <= Milli

\* C1: every run of the entry point emits exactly one JSON object and then
\* exits: with a missing scorer, a missing argument, an empty or
\* white-space-only text ("Empty text provided") or an exception in the
\* analysis, an object whose only field is `error` and exit code 1; otherwise
\* the result object and exit code 0. Nothing is emitted before the exit.
FailureCase ==
    \/ ~installed
    \/ Len(argv) < 2
    \/ AllWhiteSpace(argv[2])
    \/ exc # None

C1_OneObjectThenExit ==
    /\ pc # "exited" => stdout = <<>>
    /\ pc = "exited" =>
          /\ Len(stdout) = 1
          /\ IF FailureCase
             THEN exit_code = 1 /\ DOMAIN stdout[1] = {"error"}
             ELSE exit_code = 0 /\ DOMAIN stdout[1] = ResultFields
          /\ (installed /\ Len(argv) >= 2 /\ AllWhiteSpace(argv[2]))
                => stdout[1].error = "Empty text provided"

C1_Witness ==
    /\ pc = "exited"
    /\ installed
    /\ Len(argv) = 2
    /\ argv[2] = <<" ", " ">>
    /\ stdout = <<[error |-> "Empty text provided"]>>
    /\ exit_code = 1

\* C2: when the detector returns true for the text and the base compound is
\* positive, the compound between the sarcasm step and the domain adjustment
\* is -abs(base) * 0.7, and the result reports sarcasm_detected = true.
C2_SarcasmFlip ==
    /\ (pc = "adjust" /\ detect_sarcasm(text) /\ scores.compound > 0)
          => 10 * compound = -7 * Abs(scores.compound)
    /\ (Succeeded /\ detect_sarcasm(text) /\ scores.compound > 0)
          => stdout[1].adjustments.sarcasm_detected = TRUE

C2_Witness ==
    /\ pc = "adjust"
    /\ detect_sarcasm(text)
    /\ scores.compound = 600000 * Micro
    /\ compound = -420000 * Micro

\* C3: the domain adjustment step adds clamp(S, -0.3, +0.3) to the compound,
\* S being the sum of the weights of the distinct table terms that occur in
\* the lower-cased text, each counted once.
C3_DomainAdjustment ==
    [][pc = "adjust" => compound' - compound = DomainAdjustment(text)]_vars

C3_Witness ==
    /\ pc = "clamp"
    /\ Cardinality(MatchedTerms(text)) = 2
    /\ SumOfWeights(MatchedTerms(text)) = -5 * Tenth
    /\ compound = scores.compound - 3 * Tenth

\* C4: the label is fixed by the final clamped compound: >= 0.05 Positive,
\* <= -0.05 Negative, anything strictly between Neutral; the label is one of
\* the three and carries its own emoji.
C4_LabelByThreshold ==
    pc \in {"result", "print"} =>
        /\ label \in {"Positive", "Negative", "Neutral"}
        /\ compound >= Threshold <=> label = "Positive"
        /\ compound <= -Threshold <=> label = "Negative"
        /\ (-Threshold < compound /\ compound < Threshold) <=> label = "Neutral"
        /\ label = "Positive" => emoji = EMOJI_POSITIVE
        /\ label = "Negative" => emoji = EMOJI_NEGATIVE
        /\ label = "Neutral" => emoji = EMOJI_NEUTRAL
        /\ Cardinality({EMOJI_POSITIVE, EMOJI_NEGATIVE, EMOJI_NEUTRAL}) = 3
        /\ pc = "print" => sentiment.label = label /\ sentiment.emoji = emoji

C4_Witness ==
    /\ pc = "print"
    /\ scores.compound = Threshold
    /\ compound = Threshold
    /\ sentiment.label = "Positive"
    /\ sentiment.emoji = EMOJI_POSITIVE

\* C5: the compound reported in the result lies in [-1.0, 1.0], whatever
\* sarcasm flip and domain adjustment were applied.
C5_CompoundInRange ==
    Succeeded => (-Scale <= stdout[1].compound /\ stdout[1].compound <= Scale)

C5_Witness ==
    /\ Succeeded
    /\ scores.compound = Scale
    /\ ~detect_sarcasm(text)
    /\ SumOfWeights(MatchedTerms(text)) > 0
    /\ stdout[1].compound = Scale

\* C6: for a text with no indicator phrase, no indicator emoji and no domain
\* keyword, the reported compound is the base compound rounded to 3 decimals.
C6_NoCorrection ==
    (Succeeded /\ PhrasesIn(text) = {} /\ ~HasIndicatorEmoji(text) /\ MatchedTerms(text) = {})
        => IsRounded3(stdout[1].compound, scores.compound)

C6_Witness ==
    /\ Succeeded
    /\ PhrasesIn(text) = {}
    /\ ~HasIndicatorEmoji(text)
    /\ MatchedTerms(text) = {}
    /\ scores.compound = 49600 * Micro
    /\ stdout[1].compound = 50 * Milli

\* C7: the detector returns true exactly when an indicator phrase and a
\* context token both occur in the lower-cased text, or an indicator emoji of
\* the list occurs in the original text; it returns false for the empty text.
SarcasmExpected(t) ==
    (PhrasesIn(t) # {} /\ HasContextToken(t)) \/ HasIndicatorEmoji(t)

C7_DetectorIff ==
    /\ (pc = "import" /\ Len(argv) = 2)
          => (detect_sarcasm(argv[2]) <=> SarcasmExpected(argv[2]))
    /\ pc = "import" => ~detect_sarcasm(<<>>)
    /\ pc = "print"
          => (sentiment.adjustments.sarcasm_detected <=> SarcasmExpected(text))

C7_Witness ==
    /\ pc = "print"
    /\ PhrasesIn(text) # {}
    /\ ~HasContextToken(text)
    /\ ~HasIndicatorEmoji(text)
    /\ sentiment.adjustments.sarcasm_detected = FALSE

\* C8: when the detector returns true and the base compound is <= 0, the
\* sarcasm step leaves the compound as it is, the final compound is
\* clamp(base + domain adjustment, -1, 1), as it is without sarcasm, and the
\* result still reports sarcasm_detected = true.
C8_NoFlipOnNonPositive ==
    /\ (pc = "adjust" /\ scores.compound <= 0) => compound = scores.compound
    /\ (Succeeded /\ (scores.compound <= 0 \/ ~detect_sarcasm(text)))
          => /\ compound = Clamp(scores.compound + DomainAdjustment(text), -Scale, Scale)
             /\ stdout[1].adjustments.sarcasm_detected = detect_sarcasm(text)

C8_Witness ==
    /\ Succeeded
    /\ detect_sarcasm(text)
    /\ MatchedTerms(text) = {}
    /\ scores.compound = -600000 * Micro
    /\ compound = -600000 * Micro
    /\ stdout[1].adjustments.sarcasm_detected = TRUE

\* C9 as claimed: the label of every result agrees with the reported (rounded)
\* compound: Positive exactly when it is >= 0.05, Negative exactly when it is
\* <= -0.05, Neutral otherwise.
C9_LabelAgreesWithReported ==
    Succeeded =>
        LET r == stdout[1]
        IN  /\ r.label = "Positive" <=> r.compound >= Threshold
            /\ r.label = "Negative" <=> r.compound <= -Threshold
            /\ r.label = "Neutral" <=> (-Threshold < r.compound /\ r.compound < Threshold)

\* C9 as amended: the label of every result agrees with the compound before
\* rounding; of the reported compound it only follows that Positive has it
\* >= 0.05, Negative has it <= -0.05 and Neutral has it in [-0.05, 0.05],
\* both ends included.
C9_LabelBoundsReported ==
    Succeeded =>
        LET r == stdout[1]
        IN  /\ IsRounded3(r.compound, compound)
            /\ r.label = "Positive" <=> compound >= Threshold
            /\ r.label = "Negative" <=> compound <= -Threshold
            /\ r.label = "Positive" => r.compound >= Threshold
            /\ r.label = "Negative" => r.compound <= -Threshold
            /\ r.label = "Neutral" => (-Threshold <= r.compound /\ r.compound <= Threshold)

C9_Witness ==
    /\ Succeeded
    /\ stdout[1].label = "Neutral"
    /\ compound = 49600 * Micro
    /\ stdout[1].compound = Threshold

\* C10: a text that contains 'yeah right', 'oh great' or 'just what i needed'
\* (in any case) is always reported as sarcastic, each of the three holding a
\* context token itself; only single-word indicators can be present in a
\* text that holds an indicator and is not reported as sarcastic.
MultiWord == {k \in 1..Len(SARCASM_INDICATORS) : Contains(<<" ">>, SARCASM_INDICATORS[k])}

C10_MultiWordAlwaysSarcastic ==
    pc = "print" =>
        /\ PhrasesIn(text) \cap MultiWord # {} => sentiment.adjustments.sarcasm_detected
        /\ (PhrasesIn(text) # {} /\ ~sentiment.adjustments.sarcasm_detected)
              => PhrasesIn(text) \cap MultiWord = {}
        /\ \A k \in MultiWord : HasContextToken(SARCASM_INDICATORS[k])

C10_Witness ==
    /\ pc = "print"
    /\ text = <<"Y", "e", "a", "h", " ", "R", "i", "g", "h", "t">>
    /\ sentiment.adjustments.sarcasm_detected = TRUE
====
